---- MODULE Spec2Model ----
(***************************************************************************)
(* EGAISCHEK: the check1.fsrar.ru verification client                       *)
(* (egaicheck/check_client.py), the Telegram conversation that drives it    *)
(* (egaicheck/bot.py) and the DataMatrix decoder (egaicheck/ocr.py).        *)
(*                                                                           *)
(* Python strings on which the code performs string operations (lower,      *)
(* strip, substring tests) are sequences of one-character strings, so that  *)
(* those operations are computed and not assumed.  None is the Python None. *)
(***************************************************************************)
EXTENDS Integers, Sequences, FiniteSets, TLC

\* ------------------------------------------------------------------ bounds
MaxInputs == 3      \* inputs of a generated form
MaxSubmits == 2     \* submit_check calls an API caller makes on one client
MaxAttempts == 3    \* handle_photo calls that reach prepare_check (all users)
MaxSymbols == 2     \* symbols the DataMatrix decoder finds in one image

\* ----------------------------------------------------------- Python values
None == <<"None">>
EmptyStr == <<>>

\* Python truthiness of an Optional[str]
Truthy(s) == s # None /\ s # EmptyStr

UpperChars == <<"A","B","C","D","E","F","G","H","I","J","K","L","M",
                "N","O","P","Q","R","S","T","U","V","W","X","Y","Z">>
LowerChars == <<"a","b","c","d","e","f","g","h","i","j","k","l","m",
                "n","o","p","q","r","s","t","u","v","w","x","y","z">>

Letter(i) == IF i <= 26 THEN UpperChars[i] ELSE LowerChars[i - 26]

\* the lower-case form of each letter
LowerOf ==
    [c \in {Letter(i) : i \in 1..52} |->
        IF \E i \in 1..26 : UpperChars[i] = c
        THEN LowerChars[CHOOSE i \in 1..26 : UpperChars[i] = c]
        ELSE c]

LowerChar(c) == IF c \in DOMAIN LowerOf THEN LowerOf[c] ELSE c

\* str.lower()
Lower(s) == [i \in 1..Len(s) |-> LowerChar(s[i])]

\* the Python test "sub in s"
Contains(s, sub) ==
    \E i \in 0..(Len(s) - Len(sub)) : SubSeq(s, i + 1, i + Len(sub)) = sub

\* str.endswith
EndsWith(s, suf) ==
    /\ Len(suf) <= Len(s)
    /\ SubSeq(s, Len(s) - Len(suf) + 1, Len(s)) = suf

Whitespace == {" ", "\t", "\n"}

RECURSIVE LStrip(_)
LStrip(s) == IF s # <<>> /\ Head(s) \in Whitespace THEN LStrip(Tail(s)) ELSE s

RECURSIVE RStrip(_)
RStrip(s) ==
    IF s # <<>> /\ s[Len(s)] \in Whitespace
    THEN RStrip(SubSeq(s, 1, Len(s) - 1))
    ELSE s

\* str.strip()
Strip(s) == RStrip(LStrip(s))

\* dict.get(key, default) on a mapping modelled as a function
DictGet(d, k, default) == IF k \in DOMAIN d THEN d[k] ELSE default

\* d[k] = v
DictSet(d, k, v) == [x \in (DOMAIN d) \cup {k} |-> IF x = k THEN v ELSE d[x]]

\* d.pop(k, None)
DictPop(d, k) == [x \in (DOMAIN d) \ {k} |-> d[x]]

EmptyDict == [x \in {} |-> <<>>]

\* ------------------------------------------------------------ the web site
BASE_URL == [origin |-> "https://check1.fsrar.ru", path |-> <<"/">>]

\* urljoin(base, rel) for the two shapes of rel the pages below use: the
\* empty reference (the base itself) and an absolute path.
urljoin(base, rel) ==
    IF ~Truthy(rel) THEN base ELSE [origin |-> base.origin, path |-> rel]

MARK_KEYS == { <<"m","a","r","k">>, <<"k","o","d">>, <<"c","o","d","e">>,
               <<"d","a","t","a","m","a","t","r","i","x">>,
               <<"s","h","t","r","i","h">>, <<"s","d","a","t","a">> }
MARK_TYPES == { <<"t","e","x","t">>, <<"s","e","a","r","c","h">>,
                <<"t","e","l">>, <<>> }
S_captcha == <<"c","a","p","t","c","h","a">>
S_ucaptcha == <<"_","c","a","p","t","c","h","a">>

\* attribute values the generated forms draw from
N_code == <<"c","o","d","e">>
N_Kod == <<"K","o","d">>
N_kod_captcha == <<"k","o","d","_","C","a","p","t","c","h","a">>
N_id == <<"i","d">>
T_Text == <<"T","e","x","t">>
T_hidden == <<"h","i","d","d","e","n">>
\* an unnamed input; inputs whose name matches a mark key, with a type that
\* qualifies and one that does not; a captcha input and a plain hidden field
\* with different values
Inputs ==
    { [name |-> None, type |-> None, value |-> <<"1">>] }
    \cup [name : {N_code}, type : {None, T_hidden}, value : {None}]
    \cup [name : {N_Kod, N_kod_captcha}, type : {T_Text, T_hidden}, value : {None}]
    \cup [name : {S_captcha}, type : {T_hidden}, value : {None, <<"1">>}]
    \cup [name : {N_id}, type : {T_hidden}, value : {None, <<"1">>, <<"2">>}]

P_check == <<"/","c","h","e","c","k">>
P_captcha_png == <<"/","c","a","p","t","c","h","a",".","p","n","g">>
P_logo_png == <<"/","l","o","g","o",".","p","n","g">>

\* tag.get(attr): the attribute or None; tag.get(attr, default)
Attr(el, a) == el[a]
AttrOr(el, a, default) == IF el[a] = None THEN default ELSE el[a]

\* ------------------------------------------------- prepare_check: the form
\* line 73-74: does this input qualify as the mark field
IsMarkCandidate(name, input_type) ==
    /\ input_type \in MARK_TYPES
    /\ \E key \in MARK_KEYS : Contains(Lower(name), key)

\* line 76
IsCaptchaCandidate(name) ==
    Contains(Lower(name), S_captcha) \/ EndsWith(Lower(name), S_ucaptcha)

\* a variant that keeps the value of the first input of a name (setdefault)
RecordFieldKeepFirst(hidden_fields, name, value) ==
    IF name \in DOMAIN hidden_fields THEN hidden_fields
    ELSE DictSet(hidden_fields, name, value)

\* line 70: hidden_fields[name] = value
RecordField(hidden_fields, name, value) == DictSet(hidden_fields, name, value)

\* a variant that takes every named input for the mark field
ClassifyMarkAny(mark_field, name, input_type) == name

\* a variant that stops at the first qualifying input
ClassifyMarkFirst(mark_field, name, input_type) ==
    IF IsMarkCandidate(name, input_type) /\ mark_field = None THEN name
    ELSE mark_field

\* lines 73-75: the new value of mark_field after one input
ClassifyMark(mark_field, name, input_type) ==
    IF IsMarkCandidate(name, input_type) THEN name ELSE mark_field

\* a variant that stops at the first qualifying input
ClassifyCaptchaFirst(captcha_field, name) ==
    IF IsCaptchaCandidate(name) /\ captcha_field = None THEN name
    ELSE captcha_field

\* lines 76-77: the new value of captcha_field after one input
ClassifyCaptcha(captcha_field, name) ==
    IF IsCaptchaCandidate(name) THEN name ELSE captcha_field

\* lines 65-77: one iteration of the loop over form.find_all("input")
ScanInput(acc, input_el) ==
    LET name == Attr(input_el, "name") IN
    IF ~Truthy(name) THEN acc
    ELSE LET value == AttrOr(input_el, "value", EmptyStr)
             input_type == Lower(IF Truthy(Attr(input_el, "type"))
                                 THEN Attr(input_el, "type") ELSE EmptyStr)
         IN [hidden_fields |-> RecordField(acc.hidden_fields, name, value),
             mark_field |-> ClassifyMark(acc.mark_field, name, input_type),
             captcha_field |-> ClassifyCaptcha(acc.captcha_field, name)]

\* lines 60-77: the whole loop, in document order
RECURSIVE ScanInputs(_, _)
ScanInputs(acc, inputs) ==
    IF inputs = <<>> THEN acc
    ELSE ScanInputs(ScanInput(acc, Head(inputs)), Tail(inputs))

ScanStart == [hidden_fields |-> EmptyDict, mark_field |-> None, captcha_field |-> None]

\* a variant that forgets lines 81-82
CaptchaFieldAsFound(captcha_field) == captcha_field

\* lines 81-82: the literal name "captcha" when the loop found no captcha input
CaptchaFieldOrDefault(captcha_field) ==
    IF Truthy(captcha_field) THEN captcha_field ELSE S_captcha

\* a variant that forgets line 92
PopMarkFieldOnly(hidden_fields, mark_field, captcha_field) ==
    DictPop(hidden_fields, mark_field)

\* lines 91-92
PopFields(hidden_fields, mark_field, captcha_field) ==
    DictPop(DictPop(hidden_fields, mark_field), captcha_field)

\* ------------------------------------------------------- HTTP, as requests
Statuses == {200, 500}

\* Response.raise_for_status(): raises for a 4xx or 5xx status
RaisesForStatus(status) == status >= 400 /\ status < 600

\* one HTTP request issued on a session; attempt is the identity of the
\* PendingCheck object the request belongs to (history only, not sent)
GetRequest(url, attempt) ==
    [method |-> "GET", url |-> url, data |-> EmptyDict, headers |-> EmptyDict,
     attempt |-> attempt]

PostRequest(url, data, headers, attempt) ==
    [method |-> "POST", url |-> url, data |-> data, headers |-> headers,
     attempt |-> attempt]

\* ---------------------------------------------------------- prepare_check
N_token == <<"_","_","R","e","q","u","e","s","t","V","e","r","i","f","i","c",
             "a","t","i","o","n","T","o","k","e","n">>
H_token == <<"X","-","R","e","q","u","e","s","t","-","V","e","r","i","f","i",
             "c","a","t","i","o","n","-","T","o","k","e","n">>

\* a variant that copies the token whenever the field exists, empty or not
TokenHeadersAlways(hidden_fields) ==
    IF N_token \in DOMAIN hidden_fields
    THEN DictSet(EmptyDict, H_token, hidden_fields[N_token])
    ELSE EmptyDict

\* lines 85-88
TokenHeaders(hidden_fields) ==
    LET token_value == DictGet(hidden_fields, N_token, None) IN
    IF Truthy(token_value) THEN DictSet(EmptyDict, H_token, token_value)
    ELSE EmptyDict

\* line 94: form.find("img"), the first <img> inside the form, or 0
FormImg(imgs) ==
    IF \E i \in 1..Len(imgs) : imgs[i].in_form
    THEN CHOOSE i \in 1..Len(imgs) :
            imgs[i].in_form /\ \A j \in 1..(i - 1) : ~imgs[j].in_form
    ELSE 0

IsCaptchaSrc(src) == Truthy(src) /\ Contains(Lower(src), S_captcha)

\* line 96: soup.find("img", src=...), the first <img> of the document whose
\* src contains "captcha", or 0
DocCaptchaImg(imgs) ==
    IF \E i \in 1..Len(imgs) : IsCaptchaSrc(imgs[i].src)
    THEN CHOOSE i \in 1..Len(imgs) :
            IsCaptchaSrc(imgs[i].src) /\ \A j \in 1..(i - 1) : ~IsCaptchaSrc(imgs[j].src)
    ELSE 0

\* a variant that looks for a captcha src only, inside the form or not
CaptchaImgBySrc(imgs) == DocCaptchaImg(imgs)

\* lines 94-96
CaptchaImg(imgs) == IF FormImg(imgs) # 0 THEN FormImg(imgs) ELSE DocCaptchaImg(imgs)

NoPending == [mark_code |-> None]

PrepareFailed(error, requests) ==
    [ok |-> FALSE, error |-> error, requests |-> requests,
     pending |-> NoPending, captcha |-> None]

\* lines 37-113.  page is what the site serves for BASE_URL, st_page and
\* st_captcha the statuses of the two GETs; attempt is the identity of the
\* PendingCheck object built at line 105 (the field id: two PendingCheck
\* objects with equal fields are still two objects).
PrepareCheck(page, st_page, st_captcha, mark_code, attempt) ==
    LET get_page == GetRequest(BASE_URL, attempt) IN
    IF RaisesForStatus(st_page) THEN PrepareFailed("HTTPError", <<get_page>>)
    ELSE IF ~page.has_form THEN PrepareFailed("no form", <<get_page>>)
    ELSE
    LET action == IF Truthy(page.action) THEN page.action ELSE EmptyStr
        action_url == urljoin(BASE_URL, action)
        scan == ScanInputs(ScanStart, page.inputs)
    IN
    IF ~Truthy(scan.mark_field) THEN PrepareFailed("no mark field", <<get_page>>)
    ELSE
    LET mark_field == scan.mark_field
        captcha_field == CaptchaFieldOrDefault(scan.captcha_field)
        headers == TokenHeaders(scan.hidden_fields)
        hidden_fields == PopFields(scan.hidden_fields, mark_field, captcha_field)
        captcha_img == CaptchaImg(page.imgs)
    IN
    IF captcha_img = 0 THEN PrepareFailed("no captcha image", <<get_page>>)
    ELSE
    LET captcha_url == urljoin(BASE_URL, page.imgs[captcha_img].src)
        get_captcha == GetRequest(captcha_url, attempt)
    IN
    IF RaisesForStatus(st_captcha)
    THEN PrepareFailed("HTTPError", <<get_page, get_captcha>>)
    ELSE [ok |-> TRUE, error |-> "", requests |-> <<get_page, get_captcha>>,
          pending |-> [mark_code |-> mark_code,
                       action_url |-> action_url,
                       mark_field |-> mark_field,
                       captcha_field |-> captcha_field,
                       extra_fields |-> hidden_fields,
                       headers |-> headers,
                       id |-> attempt],
          captcha |-> captcha_url]

\* ----------------------------------------------------------- submit_check
H_Referer == <<"R","e","f","e","r","e","r">>
H_ContentType == <<"C","o","n","t","e","n","t","-","T","y","p","e">>
V_form == <<"application/x-www-form-urlencoded">>
V_base == <<"https://check1.fsrar.ru/">>

\* dict.update
DictUpdate(d, e) ==
    [x \in (DOMAIN d) \cup (DOMAIN e) |-> IF x \in DOMAIN e THEN e[x] ELSE d[x]]

\* lines 126-128
FormData(pending, captcha_value) ==
    DictSet(DictSet(pending.extra_fields, pending.mark_field, pending.mark_code),
            pending.captcha_field, captcha_value)

\* lines 130-131
SubmitHeaders(pending) ==
    DictUpdate(DictSet(DictSet(EmptyDict, H_Referer, V_base), H_ContentType, V_form),
               pending.headers)

\* the response to the POST: the value of its Content-Type header (None
\* without the header) and what its body is
S_application_json ==
    <<"a","p","p","l","i","c","a","t","i","o","n","/","j","s","o",
      "n">>
C_json == S_application_json
C_json_charset ==
    <<"a","p","p","l","i","c","a","t","i","o","n","/","j","s","o","n",
      ";"," ","c","h","a","r","s","e","t","=","u","t","f","-",
      "8">>
C_JSON ==
    <<"A","p","p","l","i","c","a","t","i","o","n","/","J","S","O",
      "N">>
C_html == <<"t","e","x","t","/","h","t","m","l">>
ContentTypes == {None, C_html, C_json, C_json_charset, C_JSON}
Bodies == {"object", "array", "malformed"}
Responses == [content_type : ContentTypes, body : Bodies]

\* a variant that compares media types without regard to case
JsonDeclaredAnyCase(content_type) ==
    Contains(Lower(IF content_type = None THEN EmptyStr ELSE content_type),
             S_application_json)

\* line 142: "application/json" in response.headers.get("Content-Type", "")
JsonDeclared(content_type) ==
    Contains(IF content_type = None THEN EmptyStr ELSE content_type,
             S_application_json)

\* line 143, response.json(): the parsed value, a dict for a JSON object and
\* a list for a JSON array, or the decoder's exception
ParseJson(body) ==
    IF body = "object" THEN "dict"
    ELSE IF body = "array" THEN "list"
    ELSE "JSONDecodeError"

\* a variant in which form_data is pending.extra_fields itself, not a copy
PendingAliased(pending, form_data) == [pending EXCEPT !.extra_fields = form_data]

\* lines 126-131: the PendingCheck object after submit_check.  form_data is
\* a copy made by dict() and headers a new dict, so the writes of lines
\* 127-128 and 131 do not reach the object.
PendingAfterSubmit(pending, form_data) == pending

\* lines 115-144.  st_post is the status of the response to the POST and
\* response its Content-Type header and body; error is the exception that
\* leaves submit_check, result the kind of value it returns.
SubmitCheck(pending, captcha_value, st_post, response) ==
    LET post == PostRequest(pending.action_url, FormData(pending, captcha_value),
                            SubmitHeaders(pending), pending.id)
        parsed == IF JsonDeclared(response.content_type)
                  THEN ParseJson(response.body) ELSE "text"
        error == IF RaisesForStatus(st_post) THEN "HTTPError"
                 ELSE IF parsed = "JSONDecodeError" THEN parsed
                 ELSE ""
    IN [request |-> post,
        pending |-> PendingAfterSubmit(pending, post.data),
        raised |-> error # "",
        error |-> error,
        result |-> IF error # "" THEN "none" ELSE parsed]

\* ------------------------------------------------------------------ pages
NoFormPage == [has_form |-> FALSE, action |-> None, inputs |-> <<>>, imgs |-> <<>>]

FormPage(inputs, imgs) ==
    [has_form |-> TRUE, action |-> P_check, inputs |-> inputs, imgs |-> imgs]

ImgInForm == [in_form |-> TRUE, src |-> P_captcha_png]
ImgLogo == [in_form |-> FALSE, src |-> P_logo_png]

\* more <img> elements: inside the form with another picture and without a
\* src, outside the form with a captcha src in upper case, with a second
\* captcha src, and without a src
P_CAPTCHA_png == <<"/","C","A","P","T","C","H","A",".","p","n","g">>
P_captcha2_png == <<"/","c","a","p","t","c","h","a","2",".","p","n","g">>
ImgInFormLogo == [in_form |-> TRUE, src |-> P_logo_png]
ImgInFormNoSrc == [in_form |-> TRUE, src |-> None]
ImgDocCaptcha == [in_form |-> FALSE, src |-> P_CAPTCHA_png]
ImgDocCaptcha2 == [in_form |-> FALSE, src |-> P_captcha2_png]
ImgDocNoSrc == [in_form |-> FALSE, src |-> None]
Imgs == { ImgInForm, ImgInFormLogo, ImgInFormNoSrc, ImgLogo, ImgDocCaptcha,
          ImgDocCaptcha2, ImgDocNoSrc }

InputSeqs == UNION { [1..n -> Inputs] : n \in 0..MaxInputs }

\* inputs that carry, or nearly carry, the anti-forgery token: without a
\* value attribute, with an empty value, with two different values, and one
\* whose name differs from the token's name in case only
N_token_lower == Lower(N_token)
V_tok1 == <<"t","o","k","1">>
V_tok2 == <<"t","o","k","2">>
TokenInputs ==
    [name : {N_token}, type : {T_hidden}, value : {None, EmptyStr, V_tok1, V_tok2}]
    \cup { [name |-> N_token_lower, type |-> T_hidden, value |-> V_tok1] }

MarkInput == [name |-> N_code, type |-> None, value |-> None]

\* forms with a mark input and one or two inputs of TokenInputs
TokenPages ==
    { FormPage(<<MarkInput, t>>, <<ImgInForm>>) : t \in TokenInputs }
    \cup { FormPage(<<t1, MarkInput, t2>>, <<ImgInForm>>) : t1, t2 \in TokenInputs }

\* forms with a mark input on pages with no, one or two <img> elements, in
\* document order
ImagePages ==
    { FormPage(<<MarkInput>>, imgs) : imgs \in UNION { [1..n -> Imgs] : n \in 0..2 } }

\* what the site may serve to an API caller: every form of up to MaxInputs
\* inputs with its captcha image, and pages on which discovery fails
Pages ==
    { FormPage(inputs, <<ImgInForm>>) : inputs \in InputSeqs }
    \cup { NoFormPage,
           FormPage(<<[name |-> N_code, type |-> None, value |-> None]>>, <<ImgLogo>>),
           FormPage(<<[name |-> N_code, type |-> T_hidden, value |-> None]>>, <<ImgLogo>>) }
    \cup TokenPages \cup ImagePages

\* the form of the specification's end-to-end scenario
N_rar_mark == <<"r","a","r","_","m","a","r","k">>
N_img_captcha == <<"i","m","g","_","c","a","p","t","c","h","a">>
T_text == <<"t","e","x","t">>
ScenarioInputs ==
    << [name |-> N_rar_mark, type |-> T_text, value |-> None],
       [name |-> N_img_captcha, type |-> T_text, value |-> None],
       [name |-> N_token, type |-> T_hidden, value |-> <<"t","o","k","1">>] >>

\* what the site may serve while the bot runs
BotPages ==
    { FormPage(ScenarioInputs, <<ImgInForm>>),
      FormPage(ScenarioInputs, <<ImgLogo>>),
      FormPage(<<[name |-> N_id, type |-> T_hidden, value |-> <<"1">>]>>, <<ImgInForm>>),
      NoFormPage }

\* what the site may serve to an API caller that goes on to submit
ApiPages ==
    { FormPage(<<input_el>>, <<ImgInForm>>) : input_el \in Inputs } \cup BotPages

MarkCodes == { <<"M","1">>, <<"M","2">> }
Answers == { <<"x","7">>, <<"y","8">> }
\* message texts a user may send while a captcha answer is awaited
Texts == { <<" ">>, <<" ","x","7","\n">> }
\* update.message.text as handle_captcha reads it; None: the update carries
\* no message (an edited message) or the message no text
MessageTexts == Texts \cup {None}

Users == {"u1", "u2"}

\* ------------------------------------------------------------------ state
VARIABLES
    site,       \* the page the site serves for BASE_URL
    sessions,   \* sessions[c]: the requests issued on the requests.Session of client c
    users_of,   \* users_of[c]: the users on whose behalf client c issued requests
    attempts,   \* PendingCheck objects whose construction was started so far
    api,        \* an API caller of Check1FsrarClient: what prepare_check gave it
    conv,       \* conv[u]: the ConversationHandler state of user u
    user_data,  \* user_data[u]: context.user_data.get("session")
    last,       \* last[u]: the handler run last, when it ran for u, and how it ended
    ocr         \* a call of decode_mark_from_image: its inputs and its outcome

vars == <<site, sessions, users_of, attempts, api, conv, user_data, last, ocr>>

\* no call of decode_mark_from_image is under way
NoCall == [phase |-> "none"]

\* bot.py line 57, and telegram.ext.ConversationHandler.END
WAITING_FOR_PHOTO == 0
WAITING_FOR_CAPTCHA == 1
END == -1

NoSession == [client |-> 0, pending |-> NoPending]
\* sent: the reply that ends the handler was accepted by Telegram
\* text: update.message.text as handle_captcha received it
NoEvent == [handler |-> "", outcome |-> "", error |-> "", sent |-> TRUE, text |-> None]
Event(handler, outcome, error) ==
    [handler |-> handler, outcome |-> outcome, error |-> error, sent |-> TRUE,
     text |-> None]
Reply(event, sent) == [event EXCEPT !.sent = sent]
Received(event, text) == [event EXCEPT !.text = text]
\* the handler that ran in this step ran for u and ended as event tells
Ran(u, event) == [v \in Users |-> IF v = u THEN event ELSE NoEvent]

\* a variant that reuses the client made last, when there is one
SharedClient == IF Len(sessions) = 0 THEN 1 ELSE Len(sessions)

\* Check1FsrarClient(): a client with a requests.Session of its own
\* (check_client.py lines 33-35); clients are numbered in creation order
NewClient == Len(sessions) + 1

\* the session histories after client c issued requests for user u
Issue(hist, c, requests) ==
    [k \in 1..(IF c > Len(hist) THEN c ELSE Len(hist)) |->
        IF k = c THEN (IF k <= Len(hist) THEN hist[k] ELSE <<>>) \o requests
        ELSE IF k <= Len(hist) THEN hist[k] ELSE <<>>]

Used(owners, c, u) ==
    [k \in 1..(IF c > Len(owners) THEN c ELSE Len(owners)) |->
        IF k = c THEN (IF k <= Len(owners) THEN owners[k] ELSE {}) \cup {u}
        ELSE IF k <= Len(owners) THEN owners[k] ELSE {}]

Posts(hist) == { k \in 1..Len(hist) : hist[k].method = "POST" }

NoResponse == [status |-> 0, content_type |-> None, body |-> ""]

\* result is what prepare_check returned, pending the PendingCheck object as
\* it is now, response the last answer to a POST and returned what
\* submit_check made of it
ApiNew ==
    [phase |-> "new", result |-> PrepareFailed("", <<>>), pending |-> NoPending,
     submits |-> 0, response |-> NoResponse, returned |-> "nothing"]

\* ------------------------------------------- an API caller of the client
\* one Check1FsrarClient was constructed; the bot is not running
InitClient(pages) ==
    /\ site \in pages
    /\ sessions = << <<>> >>
    /\ users_of = << {} >>
    /\ attempts = 0
    /\ api = ApiNew
    /\ conv = [u \in Users |-> END]
    /\ user_data = [u \in Users |-> NoSession]
    /\ last = [u \in Users |-> NoEvent]
    /\ ocr = NoCall

\* client.prepare_check(mark_code)
ApiPrepare ==
    /\ api.phase = "new"
    /\ \E mark_code \in MarkCodes, st_page \in Statuses, st_captcha \in Statuses :
         \E res \in {PrepareCheck(site, st_page, st_captcha, mark_code, attempts + 1)} :
         /\ sessions' = Issue(sessions, 1, res.requests)
         /\ api' = [phase |-> IF res.ok THEN "prepared" ELSE "failed",
                    result |-> res, pending |-> res.pending,
                    submits |-> 0, response |-> NoResponse, returned |-> "nothing"]
    /\ attempts' = attempts + 1
    /\ UNCHANGED <<site, users_of, conv, user_data, last, ocr>>

\* client.submit_check(pending, captcha_value), with the pending that
\* prepare_check returned, as often as the caller likes
ApiSubmit ==
    /\ api.phase = "prepared"
    /\ api.submits < MaxSubmits
    /\ \E captcha_value \in Answers, st_post \in Statuses, response \in Responses :
         \E sub \in {SubmitCheck(api.pending, captcha_value, st_post, response)} :
         /\ sessions' = Issue(sessions, 1, <<sub.request>>)
         /\ api' = [api EXCEPT !.submits = @ + 1,
                               !.pending = sub.pending,
                               !.response = [status |-> st_post,
                                             content_type |-> response.content_type,
                                             body |-> response.body],
                               !.returned = IF sub.raised THEN sub.error ELSE sub.result]
    /\ UNCHANGED <<site, users_of, attempts, conv, user_data, last, ocr>>

\* prepare_check alone, on every generated form
InitParse == InitClient(Pages)
NextParse == ApiPrepare
ParseSpec == InitParse /\ [][NextParse]_vars

\* prepare_check and then submit_check
InitApi == InitClient(ApiPages)
NextApi == ApiPrepare \/ ApiSubmit
ClientSpec == InitApi /\ [][NextApi]_vars

\* ------------------------------------------------------- egaicheck/ocr.py
\* bytes are sequences of numbers 0..255 and decoded text is a sequence of
\* code points.  NoData is symbol.data = None, DecodeError the
\* UnicodeDecodeError of bytes.decode.
NoData == <<-1>>
DecodeError == <<-2>>

\* the code points c for which chr(c).isspace(): what str.strip() removes
SpaceCodePoints ==
    (9..13) \cup (28..32) \cup {133, 160, 5760, 8232, 8233, 8239, 8287, 12288}
    \cup (8192..8202)

RECURSIVE LStripText(_)
LStripText(t) ==
    IF t # <<>> /\ Head(t) \in SpaceCodePoints THEN LStripText(Tail(t)) ELSE t

RECURSIVE RStripText(_)
RStripText(t) ==
    IF t # <<>> /\ t[Len(t)] \in SpaceCodePoints
    THEN RStripText(SubSeq(t, 1, Len(t) - 1))
    ELSE t

StripText(t) == RStripText(LStripText(t))

\* data.decode("utf-8"), for bytes below 224: one-byte and two-byte forms
RECURSIVE Utf8(_)
Utf8(data) ==
    IF data = <<>> THEN <<>>
    ELSE IF data[1] < 128
    THEN LET rest == Utf8(Tail(data)) IN
         IF rest = DecodeError THEN DecodeError ELSE <<data[1]>> \o rest
    ELSE IF data[1] \in 194..223 /\ Len(data) >= 2 /\ data[2] \in 128..191
    THEN LET rest == Utf8(SubSeq(data, 3, Len(data))) IN
         IF rest = DecodeError THEN DecodeError
         ELSE <<(data[1] - 192) * 64 + (data[2] - 128)>> \o rest
    ELSE DecodeError

\* one byte in Windows-1251: ASCII, the no-break space, the Cyrillic
\* letters of 192..255, and 152, which the code page leaves undefined
Cp1251Char(b) ==
    CASE b < 128 -> b
      [] b = 160 -> 160
      [] b = 152 -> -2
      [] b >= 192 -> 848 + b

\* data.decode("cp1251")
Cp1251(data) ==
    IF \E i \in 1..Len(data) : Cp1251Char(data[i]) = -2 THEN DecodeError
    ELSE [i \in 1..Len(data) |-> Cp1251Char(data[i])]

\* data.decode("latin-1")
Latin1(data) == data

\* ocr.py lines 14-33
DecodePayload(data) ==
    IF data = NoData \/ data = <<>> THEN <<>>
    ELSE IF Utf8(data) # DecodeError THEN StripText(Utf8(data))
    ELSE IF Cp1251(data) # DecodeError THEN StripText(Cp1251(data))
    ELSE IF Latin1(data) # DecodeError THEN StripText(Latin1(data))
    ELSE <<>>

\* the names bound in the namespace of the module egaicheck.ocr: its
\* imports (lines 2-9), LOGGER (line 11) and its two functions
OcrModuleNames ==
    {"annotations", "logging", "mimetypes", "Path", "Image", "decode", "LOGGER",
     "_decode_payload", "decode_mark_from_image"}

\* evaluating a global name that the module does not bind (and that is no
\* builtin) raises NameError
NameDefined(name) == name \in OcrModuleNames

OcrRaised(error, image_opened, decoder_calls) ==
    [outcome |-> "raised", error |-> error, value |-> <<>>,
     image_opened |-> image_opened, decoder_calls |-> decoder_calls]

OcrReturned(payload) ==
    [outcome |-> "returned", error |-> "", value |-> payload,
     image_opened |-> TRUE, decoder_calls |-> 1]

\* ocr.py lines 73-79: the loop over decoded_symbols
RECURSIVE FirstPayload(_)
FirstPayload(decoded_symbols) ==
    IF decoded_symbols = <<>> THEN OcrRaised("RuntimeError: no content", TRUE, 1)
    ELSE LET payload == DecodePayload(Head(decoded_symbols)) IN
         IF payload # <<>> THEN OcrReturned(payload)
         ELSE FirstPayload(Tail(decoded_symbols))

\* ocr.py lines 36-79.  file is what image_path names: "missing", "other"
\* (a file that is no image) or "image"; decoded_symbols is what
\* pylibdmtx's decode finds in the image, the data of each symbol.
\* Line 59 opens the file; line 62 evaluates requests.post and
\* ZXING_ENDPOINT, names the module does not bind; lines 64-68 open the
\* image and call the decoder.
DecodeMarkFromImage(file, decoded_symbols) ==
    IF file = "missing" THEN OcrRaised("FileNotFoundError", FALSE, 0)
    ELSE IF ~NameDefined("requests") \/ ~NameDefined("ZXING_ENDPOINT")
    THEN OcrRaised("NameError", FALSE, 0)
    ELSE IF file # "image" THEN OcrRaised("RuntimeError: cannot open", FALSE, 0)
    ELSE IF decoded_symbols = <<>> THEN OcrRaised("RuntimeError: not recognised", TRUE, 1)
    ELSE FirstPayload(decoded_symbols)

\* symbol.data: nothing, empty, " 12\n", "d\nv", blanks only, two bytes that
\* are Cyrillic in UTF-8, a Cyrillic letter of Windows-1251, a no-break
\* space of Windows-1251 before "1", and a byte only Latin-1 decodes
Payloads ==
    { NoData, <<>>, <<32, 49, 50, 10>>, <<100, 10, 118>>, <<32, 10>>,
      <<208, 156>>, <<204, 49>>, <<160, 49>>, <<152>> }

SymbolSeqs == UNION { [1..n -> Payloads] : n \in 0..MaxSymbols }

Files == {"missing", "other", "image"}

\* decode_mark_from_image(image_path) is called
InitDecode ==
    /\ ocr \in [phase : {"called"}, file : Files, decoded_symbols : SymbolSeqs]
    /\ ocr.file # "image" => ocr.decoded_symbols = <<>>
    /\ site = NoFormPage
    /\ sessions = <<>>
    /\ users_of = <<>>
    /\ attempts = 0
    /\ api = ApiNew
    /\ conv = [u \in Users |-> END]
    /\ user_data = [u \in Users |-> NoSession]
    /\ last = [u \in Users |-> NoEvent]

\* the call runs to its return or to its exception
DecodeMark ==
    /\ ocr.phase = "called"
    /\ ocr' = [phase |-> "done", file |-> ocr.file,
               decoded_symbols |-> ocr.decoded_symbols,
               result |-> DecodeMarkFromImage(ocr.file, ocr.decoded_symbols)]
    /\ UNCHANGED <<site, sessions, users_of, attempts, api, conv, user_data, last>>

NextDecode == DecodeMark
DecodeSpec == InitDecode /\ [][NextDecode]_vars

\* ------------------------------------------------------- the Telegram bot
\* The Application is built without concurrent updates (bot.py lines 261-267)
\* and the handlers block: one update is handled at a time, so each handler
\* is one step.  Each user has one conversation, keyed like its user_data.
\* Updates that no handler of the current state matches (a photo while a
\* captcha answer is awaited, a text while a photo is awaited, /start inside
\* a conversation) change nothing and are left out.
\* Every handler ends with a reply to the user (reply_text, reply_photo), a
\* request to Telegram that may raise.  The exception leaves the handler, and
\* the ConversationHandler then keeps the state the conversation was in.
\* Where a handler returns the state the conversation is already in, a failed
\* reply changes nothing and is not told apart.
\* decode_mark_from_image, by its contract (ocr.py lines 36-49): the decoded
\* mark, or an exception, here None
DecodeResults == { <<"M","1">>, None }

\* a variant that stores the session whatever prepare_check did
PhotoSessionAlways(session_data, res, client) ==
    [client |-> client, pending |-> res.pending]

\* bot.py lines 104-117: user_data["session"] after handle_photo
PhotoSession(session_data, res, client) ==
    IF res.ok THEN [client |-> client, pending |-> res.pending] ELSE session_data

\* bot.py lines 107-128: the state handle_photo returns
PhotoNextState(res) == IF res.ok THEN WAITING_FOR_CAPTCHA ELSE WAITING_FOR_PHOTO

\* the answers of the site to a POST while the bot runs
BotResponses ==
    { [content_type |-> C_json, body |-> "object"],
      [content_type |-> C_json, body |-> "malformed"],
      [content_type |-> C_html, body |-> "malformed"] }

\* the state of a conversation after a handler that was to return new_state:
\* ConversationHandler applies the returned state, and has none to apply when
\* the handler raised
StateAfter(old_state, new_state, sent) == IF sent THEN new_state ELSE old_state

\* a variant that submits through a client made for the purpose
CaptchaClientFresh(session_data) == Len(sessions) + 1

\* bot.py line 146: the client handle_captcha submits through
CaptchaClient(session_data) == session_data.client

\* a variant that drops the session only when submit_check returned
CaptchaSessionKeptOnError(session_data, sub) ==
    IF sub.raised THEN session_data ELSE NoSession

\* bot.py lines 160-161: user_data["session"] after submit_check returned or
\* raised; the finally clause pops it in both cases
CaptchaSession(session_data, sub) == NoSession

\* a variant that submits the text as it was typed
CaptchaValueRaw(text) == text

\* bot.py line 141: the answer handle_captcha submits
CaptchaValue(text) == Strip(text)

\* bot.py lines 151-172: the state handle_captcha returns after submit_check
CaptchaNextState(sub) == IF sub.raised THEN WAITING_FOR_CAPTCHA ELSE END

Init ==
    /\ site \in BotPages
    /\ sessions = <<>>
    /\ users_of = <<>>
    /\ attempts = 0
    /\ api = ApiNew
    /\ conv = [u \in Users |-> END]
    /\ user_data = [u \in Users |-> NoSession]
    /\ last = [u \in Users |-> NoEvent]
    /\ ocr = NoCall

\* /start, the entry point of the conversation
Start(u) ==
    /\ conv[u] = END
    /\ \E sent \in BOOLEAN :
         /\ conv' = [conv EXCEPT ![u] = StateAfter(@, WAITING_FOR_PHOTO, sent)]
         /\ last' = Ran(u, Reply(Event("start", "photo requested", ""), sent))
    /\ UNCHANGED <<site, sessions, users_of, attempts, api, user_data, ocr>>

\* a photo or image document while a photo is awaited
HandlePhoto(u) ==
    /\ conv[u] = WAITING_FOR_PHOTO
    /\ attempts < MaxAttempts
    /\ \E mark_code \in DecodeResults :
         IF mark_code = None
         THEN /\ last' = Ran(u, Event("handle_photo", "decode failed", ""))
              /\ UNCHANGED <<sessions, users_of, attempts, conv, user_data>>
         ELSE \E client \in {NewClient},
                 res \in { PrepareCheck(site, st_page, st_captcha, mark_code, attempts + 1) :
                             st_page \in Statuses, st_captcha \in Statuses },
                 sent \in BOOLEAN :
                 /\ res.ok \/ sent
                 /\ sessions' = Issue(sessions, client, res.requests)
                 /\ users_of' = Used(users_of, client, u)
                 /\ attempts' = attempts + 1
                 /\ user_data' = [user_data EXCEPT ![u] = PhotoSession(@, res, client)]
                 /\ conv' = [conv EXCEPT ![u] = StateAfter(@, PhotoNextState(res), sent)]
                 /\ last' = Ran(u,
                       Reply(Event("handle_photo",
                                   IF res.ok THEN "captcha sent" ELSE "prepare failed",
                                   res.error), sent))
    /\ UNCHANGED <<site, api, ocr>>

\* an update that passes the text filter while a captcha answer is awaited;
\* a reply that fails is told apart where the state returned is a new one
HandleCaptcha(u) ==
    /\ conv[u] = WAITING_FOR_CAPTCHA
    /\ \E text \in MessageTexts :
       LET session_data == user_data[u]
           captcha_value == CaptchaValue(text) IN
       IF ~Truthy(text)
       THEN /\ last' = Ran(u,
                  Received(Event("handle_captcha", "text requested", ""), text))
            /\ UNCHANGED <<sessions, users_of, user_data, conv>>
       ELSE IF session_data = NoSession
       THEN \E sent \in BOOLEAN :
            /\ conv' = [conv EXCEPT ![u] = StateAfter(@, WAITING_FOR_PHOTO, sent)]
            /\ last' = Ran(u,
                  Received(Reply(Event("handle_captcha", "session not found", ""), sent), text))
            /\ UNCHANGED <<sessions, users_of, user_data>>
       ELSE IF ~Truthy(captcha_value)
       THEN /\ last' = Ran(u,
                  Received(Event("handle_captcha", "empty answer", ""), text))
            /\ UNCHANGED <<sessions, users_of, user_data, conv>>
       ELSE \E client \in {CaptchaClient(session_data)},
               sub \in { SubmitCheck(session_data.pending, captcha_value, st_post, response) :
                           st_post \in Statuses, response \in BotResponses },
               sent \in BOOLEAN :
               /\ sessions' = Issue(sessions, client, <<sub.request>>)
               /\ users_of' = Used(users_of, client, u)
               /\ user_data' = [user_data EXCEPT ![u] = CaptchaSession(session_data, sub)]
               /\ ~sub.raised \/ sent
               /\ conv' = [conv EXCEPT ![u] = StateAfter(@, CaptchaNextState(sub), sent)]
               /\ last' = Ran(u,
                     Received(Reply(Event("handle_captcha",
                                          IF sub.raised THEN "submit failed" ELSE "result",
                                          IF sub.raised THEN sub.error ELSE sub.result), sent),
                              text))
    /\ UNCHANGED <<site, attempts, api, ocr>>

\* /cancel, inside or outside a conversation
Cancel(u) ==
    /\ \E sent \in BOOLEAN :
         /\ user_data' = [user_data EXCEPT ![u] = NoSession]
         /\ conv' = [conv EXCEPT ![u] = StateAfter(@, END, sent)]
         /\ last' = Ran(u, Reply(Event("cancel", "cancelled", ""), sent))
    /\ UNCHANGED <<site, sessions, users_of, attempts, api, ocr>>

Next == \E u \in Users : Start(u) \/ HandlePhoto(u) \/ HandleCaptcha(u) \/ Cancel(u)

Spec == Init /\ [][Next]_vars

\* ================================================= properties: the client
Prepared == api.phase = "prepared"
Pending == api.result.pending
FormInputs == site.inputs

Named(inputs) == { i \in 1..Len(inputs) : Truthy(inputs[i].name) }
TypeOf(input_el) ==
    Lower(IF Truthy(input_el.type) THEN input_el.type ELSE EmptyStr)
ValueOf(input_el) == IF input_el.value = None THEN EmptyStr ELSE input_el.value
MarkMatches(inputs) ==
    { i \in Named(inputs) : IsMarkCandidate(inputs[i].name, TypeOf(inputs[i])) }
CaptchaMatches(inputs) ==
    { i \in Named(inputs) : IsCaptchaCandidate(inputs[i].name) }
First(S) == CHOOSE i \in S : \A j \in S : i <= j
Last(S) == CHOOSE i \in S : \A j \in S : j <= i
SameName(inputs, i) == { j \in Named(inputs) : inputs[j].name = inputs[i].name }

\* C1 (as claimed): a PendingCheck is POSTed at most once by its client; a
\* second submit_check with the same PendingCheck sends nothing.
C1_OneShotSubmission ==
    \A c \in 1..Len(sessions) :
        \A j, k \in Posts(sessions[c]) :
            sessions[c][j].attempt = sessions[c][k].attempt => j = k

\* C6 (as claimed): the mark field is the FIRST input, in document order,
\* that qualifies as mark field.
C6_MarkFieldFirstMatch ==
    Prepared => Pending.mark_field = FormInputs[First(MarkMatches(FormInputs))].name

\* C6 (amended): the mark field is the LAST input, in document order, that
\* qualifies as mark field; a later qualifying input replaces an earlier one.
C6_MarkFieldLastMatch ==
    Prepared => Pending.mark_field = FormInputs[Last(MarkMatches(FormInputs))].name

C6_Witness ==
    /\ Prepared
    /\ FormInputs[First(MarkMatches(FormInputs))].name
         # FormInputs[Last(MarkMatches(FormInputs))].name

\* C7 (as claimed): the captcha field is the FIRST named input, in document
\* order, whose lower-cased name contains "captcha".
C7_CaptchaFieldFirstMatch ==
    (Prepared /\ CaptchaMatches(FormInputs) # {})
        => Pending.captcha_field = FormInputs[First(CaptchaMatches(FormInputs))].name

\* C7 (amended): the captcha field is the LAST named input, in document
\* order, whose lower-cased name contains "captcha".
C7_CaptchaFieldLastMatch ==
    (Prepared /\ CaptchaMatches(FormInputs) # {})
        => Pending.captcha_field = FormInputs[Last(CaptchaMatches(FormInputs))].name

C7_Witness ==
    /\ Prepared
    /\ CaptchaMatches(FormInputs) # {}
    /\ FormInputs[First(CaptchaMatches(FormInputs))].name
         # FormInputs[Last(CaptchaMatches(FormInputs))].name

\* C8 (as claimed): the body of every POST is extra_fields extended with
\* mark_field -> mark_code and captcha_field -> the answer: it carries the
\* mark code under mark_field and an answer under captcha_field, and every
\* other field as in extra_fields.
C8_SubmissionBody ==
    Prepared =>
        \A k \in Posts(sessions[1]) :
            LET data == sessions[1][k].data IN
            /\ DOMAIN data = DOMAIN Pending.extra_fields
                                \cup {Pending.mark_field, Pending.captcha_field}
            /\ data[Pending.mark_field] = Pending.mark_code
            /\ data[Pending.captcha_field] \in Answers
            /\ \A n \in DOMAIN Pending.extra_fields : data[n] = Pending.extra_fields[n]

\* C9: neither mark_field nor captcha_field is a key of extra_fields.
C9_FieldExclusivity ==
    Prepared => /\ Pending.mark_field \notin DOMAIN Pending.extra_fields
                /\ Pending.captcha_field \notin DOMAIN Pending.extra_fields

\* both placeholders were inputs of the form, and another field was kept
C9_Witness ==
    /\ Prepared
    /\ Pending.mark_field # Pending.captcha_field
    /\ \E i \in Named(FormInputs) : FormInputs[i].name = Pending.captcha_field
    /\ DOMAIN Pending.extra_fields # {}

Kept(inputs, pending) ==
    { i \in Named(inputs) : inputs[i].name \notin {pending.mark_field, pending.captcha_field} }

\* C10 (as claimed): every named input that is not the mark or captcha field
\* is in extra_fields with exactly its own value ("" without a value).
C10_RoundTripEveryInput ==
    Prepared =>
        \A i \in Kept(FormInputs, Pending) :
            /\ FormInputs[i].name \in DOMAIN Pending.extra_fields
            /\ Pending.extra_fields[FormInputs[i].name] = ValueOf(FormInputs[i])

\* C10 (amended): every name of a named input other than the mark and captcha
\* fields is a key of extra_fields, with the value of the LAST input of that
\* name ("" without a value); extra_fields has no other key.
C10_RoundTripLastValue ==
    Prepared =>
        /\ \A i \in Kept(FormInputs, Pending) :
            /\ FormInputs[i].name \in DOMAIN Pending.extra_fields
            /\ Pending.extra_fields[FormInputs[i].name]
                 = ValueOf(FormInputs[Last(SameName(FormInputs, i))])
        /\ DOMAIN Pending.extra_fields
             = { FormInputs[i].name : i \in Kept(FormInputs, Pending) }

\* two kept inputs share a name and differ in value
C10_Witness ==
    /\ Prepared
    /\ \E i, j \in Kept(FormInputs, Pending) :
         /\ FormInputs[i].name = FormInputs[j].name
         /\ ValueOf(FormInputs[i]) # ValueOf(FormInputs[j])

TokenFields(inputs) == { i \in Named(inputs) : inputs[i].name = N_token }
\* the value hidden_fields holds for the token: that of the last such input
TokenValue(inputs) == ValueOf(inputs[Last(TokenFields(inputs))])

\* C11 (as claimed): when the form has a field named __RequestVerificationToken
\* with value v, for every v, the empty string included, headers is
\* {X-Request-Verification-Token: v} and extra_fields keeps the token field
\* with v; without such a field headers is empty.
C11_TokenPropagationEveryValue ==
    Prepared =>
        IF TokenFields(FormInputs) # {}
        THEN /\ Pending.headers = DictSet(EmptyDict, H_token, TokenValue(FormInputs))
             /\ N_token \in DOMAIN Pending.extra_fields
             /\ Pending.extra_fields[N_token] = TokenValue(FormInputs)
        ELSE Pending.headers = EmptyDict

\* C11 (amended): when the form has a field named __RequestVerificationToken
\* with a NON-EMPTY value v, headers is {X-Request-Verification-Token: v};
\* when the value is empty or absent, or there is no such field, headers is
\* empty.  In both cases extra_fields keeps the token field with its value.
C11_TokenPropagationNonEmpty ==
    Prepared =>
        /\ Pending.headers =
              IF TokenFields(FormInputs) # {} /\ TokenValue(FormInputs) # EmptyStr
              THEN DictSet(EmptyDict, H_token, TokenValue(FormInputs))
              ELSE EmptyDict
        /\ TokenFields(FormInputs) # {} =>
              /\ N_token \in DOMAIN Pending.extra_fields
              /\ Pending.extra_fields[N_token] = TokenValue(FormInputs)

\* a token field with an empty value attribute was parsed
C11_Witness ==
    /\ Prepared
    /\ \E i \in TokenFields(FormInputs) : FormInputs[i].value = EmptyStr
    /\ TokenValue(FormInputs) = EmptyStr
    /\ Pending.headers = EmptyDict
    /\ Pending.extra_fields[N_token] = EmptyStr

\* prepare_check was called and its page GET was answered with the form
FormParsed == api.phase # "new" /\ site.has_form /\ api.result.error # "HTTPError"

\* C12: on every form in which no input qualifies as mark field,
\* prepare_check fails with the mark-field error, whatever images the page
\* has; the page GET is the only request issued (no captcha GET) and no
\* PendingCheck is created.
C12_MissingMarkFieldFails ==
    (FormParsed /\ MarkMatches(FormInputs) = {})
        => /\ api.phase = "failed"
           /\ api.result.error = "no mark field"
           /\ api.result.pending = NoPending
           /\ sessions[1] = <<GetRequest(BASE_URL, 1)>>

\* the form has a named input that does not qualify, and the page has no
\* captcha image either: the mark-field error is the one raised
C12_Witness ==
    /\ FormParsed
    /\ Named(FormInputs) # {}
    /\ MarkMatches(FormInputs) = {}
    /\ CaptchaImg(site.imgs) = 0
    /\ api.result.error = "no mark field"

\* C13: on a form with no input whose lower-cased name contains "captcha",
\* prepare_check fails only for another reason (no mark field, no captcha
\* image, an HTTP error), and where it succeeds captcha_field is the literal
\* "captcha".
C13_FallbackCaptchaField ==
    (FormParsed /\ CaptchaMatches(FormInputs) = {})
        => /\ (MarkMatches(FormInputs) # {} /\ CaptchaImg(site.imgs) # 0) => Prepared
           /\ Prepared => Pending.captcha_field = S_captcha

\* prepare_check succeeded on a form with named inputs, none of them a
\* captcha input
C13_Witness ==
    /\ Prepared
    /\ CaptchaMatches(FormInputs) = {}
    /\ Cardinality(Named(FormInputs)) >= 2
    /\ Pending.captcha_field = S_captcha

\* the requests of one attempt, in the order the session issued them
RequestsOf(hist, attempt) == SelectSeq(hist, LAMBDA r : r.attempt = attempt)

\* a prefix of [GET base URL, GET captcha image URL, POST action URL]
IsSequencePrefix(reqs, attempt) ==
    /\ Len(reqs) <= 3
    /\ Len(reqs) >= 1 => reqs[1] = GetRequest(BASE_URL, attempt)
    /\ Len(reqs) >= 2 =>
          reqs[2] = GetRequest(urljoin(BASE_URL, site.imgs[CaptchaImg(site.imgs)].src),
                               attempt)
    /\ Len(reqs) >= 3 =>
          /\ reqs[3].method = "POST"
          /\ reqs[3].url = urljoin(BASE_URL, site.action)

\* C14 (as claimed): the requests of every attempt are, on their session, a
\* prefix of [GET base URL, GET captcha image URL, POST action URL], each
\* issued at most once; after a request that was answered with a non-success
\* status no request of that attempt follows.
C14_RequestSequence ==
    /\ \A c \in 1..Len(sessions) : \A a \in 1..attempts :
          IsSequencePrefix(RequestsOf(sessions[c], a), a)
    /\ api.phase = "failed" => sessions[1] = api.result.requests
    /\ api.returned = "HTTPError" => Cardinality(Posts(sessions[1])) = 1

\* prepare_check got the page and found the form and a mark field
ReachedImageLookup ==
    /\ api.phase # "new"
    /\ site.has_form
    /\ MarkMatches(FormInputs) # {}
    /\ ~(api.result.error = "HTTPError" /\ Len(api.result.requests) = 1)

InFormImgs(imgs) == { i \in 1..Len(imgs) : imgs[i].in_form }
CaptchaSrcImgs(imgs) ==
    { i \in 1..Len(imgs) :
        imgs[i].src # None /\ Contains(Lower(imgs[i].src), S_captcha) }

\* C15: the captcha image is the (first) <img> inside the form when there
\* is one, otherwise the first <img> of the document whose src contains
\* "captcha" in any case; with neither, prepare_check fails with the
\* captcha-image error and issues no second GET.  The second GET goes to the
\* src of the selected image resolved against BASE_URL.
C15_CaptchaImageLocation ==
    ReachedImageLookup =>
        IF InFormImgs(site.imgs) # {}
        THEN sessions[1] = <<GetRequest(BASE_URL, 1),
                             GetRequest(urljoin(BASE_URL,
                                 site.imgs[First(InFormImgs(site.imgs))].src), 1)>>
        ELSE IF CaptchaSrcImgs(site.imgs) # {}
        THEN sessions[1] = <<GetRequest(BASE_URL, 1),
                             GetRequest(urljoin(BASE_URL,
                                 site.imgs[First(CaptchaSrcImgs(site.imgs))].src), 1)>>
        ELSE /\ api.phase = "failed"
             /\ api.result.error = "no captcha image"
             /\ sessions[1] = <<GetRequest(BASE_URL, 1)>>

\* the form has an <img> that is not the first captcha-src image of the page
C15_Witness ==
    /\ Prepared
    /\ InFormImgs(site.imgs) # {}
    /\ CaptchaSrcImgs(site.imgs) # {}
    /\ First(InFormImgs(site.imgs)) # First(CaptchaSrcImgs(site.imgs))
    /\ api.result.captcha = urljoin(BASE_URL, P_logo_png)

DeclaresJson(content_type) ==
    content_type # None /\ Contains(Lower(content_type), S_application_json)

NonEmptySymbols(decoded_symbols) ==
    { i \in 1..Len(decoded_symbols) : DecodePayload(decoded_symbols[i]) # <<>> }

\* C18 (as claimed): for a path that Image.open can open,
\* decode_mark_from_image calls the local decoder exactly once; it raises
\* RuntimeError when the decoder finds no symbol, and returns the stripped
\* text of the first symbol whose payload is not empty.
C18_DecodeFirstNonEmpty ==
    (ocr.phase = "done" /\ ocr.file = "image") =>
        /\ ocr.result.image_opened
        /\ ocr.result.decoder_calls = 1
        /\ ocr.decoded_symbols = <<>> =>
              /\ ocr.result.outcome = "raised"
              /\ ocr.result.error = "RuntimeError: not recognised"
        /\ NonEmptySymbols(ocr.decoded_symbols) # {} =>
              /\ ocr.result.outcome = "returned"
              /\ ocr.result.value =
                    DecodePayload(ocr.decoded_symbols[
                        First(NonEmptySymbols(ocr.decoded_symbols))])

\* ==================================================== properties: the bot
PageGets(hist, attempt) ==
    { k \in 1..Len(hist) : hist[k] = GetRequest(BASE_URL, attempt) }
CaptchaGets(hist, attempt) ==
    { k \in 1..Len(hist) : /\ hist[k].method = "GET"
                           /\ hist[k].attempt = attempt
                           /\ hist[k] # GetRequest(BASE_URL, attempt) }

\* C2: every submission POST is sent on the session that, before it, issued
\* the page GET and the captcha GET which produced the PendingCheck submitted.
C2_SessionContinuity ==
    \A c \in 1..Len(sessions) :
        \A k \in Posts(sessions[c]) :
            \E i \in PageGets(sessions[c], sessions[c][k].attempt) :
                \E j \in CaptchaGets(sessions[c], sessions[c][k].attempt) :
                    i < j /\ j < k

C2_Witness ==
    \E c \in 1..Len(sessions) : Posts(sessions[c]) # {}

\* C3: no session is used by two attempts or by two users, and no session
\* fetches the page twice: every attempt starts on a client of its own.
C3_SessionIsolation ==
    \A c \in 1..Len(sessions) :
        /\ \A i, j \in 1..Len(sessions[c]) :
              sessions[c][i].attempt = sessions[c][j].attempt
        /\ Cardinality(users_of[c]) <= 1
        /\ Cardinality({ k \in 1..Len(sessions[c]) :
                            sessions[c][k].method = "GET"
                            /\ sessions[c][k].url = BASE_URL }) <= 1

\* two successive attempts of one user and an attempt of another user, with
\* answers submitted for two of them
C3_Witness ==
    \E c1, c2, c3 \in 1..Len(sessions) :
        /\ c1 < c2
        /\ users_of[c1] = users_of[c2]
        /\ users_of[c3] # users_of[c1]
        /\ Posts(sessions[c2]) # {}
        /\ Posts(sessions[c3]) # {}

\* C4 (as claimed): once handle_captcha has called submit_check, whether it
\* returned or raised, the conversation no longer waits for a captcha answer.
C4_SubmitIsTerminal ==
    \A u \in Users :
        (last[u].handler = "handle_captcha"
            /\ last[u].outcome \in {"submit failed", "result"})
        => conv[u] # WAITING_FOR_CAPTCHA

\* handle_photo ran for u in this step and called prepare_check
PhotoPrepared(u) ==
    /\ attempts' # attempts
    /\ u \in users_of'[Len(sessions')]

\* C5: when prepare_check fails at any step, no PendingCheck is returned,
\* handle_photo stores no session for the user (user_data is left as it was)
\* and the conversation stays in WAITING_FOR_PHOTO.
C5_PrepareFailureStopsAttempt ==
    /\ [](\A u \in Users :
            (last[u].handler = "handle_photo" /\ last[u].outcome = "prepare failed")
            => /\ conv[u] = WAITING_FOR_PHOTO
               /\ user_data[u] = NoSession \/ user_data[u].pending # NoPending)
    /\ [][\A u \in Users :
            (PhotoPrepared(u) /\ last'[u].outcome = "prepare failed")
            => /\ user_data'[u] = user_data[u]
               /\ conv'[u] = WAITING_FOR_PHOTO]_vars

\* prepare_check failed at its last step, the captcha GET
C5_Witness ==
    \E u \in Users :
        /\ last[u].handler = "handle_photo"
        /\ last[u].outcome = "prepare failed"
        /\ last[u].error = "HTTPError"
        /\ \E c \in 1..Len(sessions) : u \in users_of[c] /\ Len(sessions[c]) = 2

\* the POSTs that submitted the PendingCheck of one attempt
SubmitsOf(attempt) ==
    { ck \in (1..Len(sessions)) \X (1..(3 * MaxAttempts)) :
        /\ ck[2] \in Posts(sessions[ck[1]])
        /\ sessions[ck[1]][ck[2]].attempt = attempt }

\* handle_captcha ran for u in this step on a message with a text, in a
\* conversation that awaits a captcha answer with no session stored
CaptchaAfterConsumed(u) ==
    /\ conv[u] = WAITING_FOR_CAPTCHA
    /\ user_data[u] = NoSession
    /\ last'[u] # last[u]
    /\ last'[u].handler = "handle_captcha"
    /\ Truthy(last'[u].text)

\* C19 (as claimed): the PendingCheck of every attempt is submitted at most
\* once, whatever messages follow; and a captcha text that arrives when the
\* session is gone gets the 'session not found' reply, sends no request and
\* returns the conversation to WAITING_FOR_PHOTO.
C19_AtMostOneSubmitAndReturn ==
    /\ [](\A a \in 1..attempts : Cardinality(SubmitsOf(a)) <= 1)
    /\ [][\A u \in Users :
            CaptchaAfterConsumed(u)
                => /\ sessions' = sessions
                   /\ last'[u].outcome = "session not found"
                   /\ last'[u].sent
                   /\ conv'[u] = WAITING_FOR_PHOTO]_vars

\* C19 (amended): the PendingCheck of every attempt is submitted at most
\* once, whatever messages follow; and a captcha text that arrives when the
\* session is gone is answered with the 'session not found' reply and sends
\* no request; the conversation returns to WAITING_FOR_PHOTO when that reply
\* was delivered and stays in WAITING_FOR_CAPTCHA when sending it raised.
C19_AtMostOneSubmit ==
    /\ [](\A a \in 1..attempts : Cardinality(SubmitsOf(a)) <= 1)
    /\ [][\A u \in Users :
            CaptchaAfterConsumed(u)
                => /\ sessions' = sessions
                   /\ last'[u].outcome = "session not found"
                   /\ conv'[u] = IF last'[u].sent THEN WAITING_FOR_PHOTO
                                ELSE WAITING_FOR_CAPTCHA]_vars

\* a submission failed, the next captcha text found no session and its
\* reply was not delivered; the attempt was POSTed once
C19_Witness ==
    \E u \in Users :
        /\ last[u].handler = "handle_captcha"
        /\ last[u].outcome = "session not found"
        /\ ~last[u].sent
        /\ conv[u] = WAITING_FOR_CAPTCHA
        /\ \E c \in 1..Len(sessions) :
              /\ users_of[c] = {u}
              /\ Cardinality(Posts(sessions[c])) = 1

\* C20 (as claimed): user_data holds a session only while the conversation
\* is in WAITING_FOR_CAPTCHA; in WAITING_FOR_PHOTO and after the end or the
\* cancellation of the conversation no session is stored.
C20_NoStaleSession ==
    \A u \in Users : user_data[u] # NoSession => conv[u] = WAITING_FOR_CAPTCHA

\* update.message.text is missing, or empty once stripped
Unusable(text) == ~Truthy(text) \/ ~Truthy(Strip(text))

\* handle_captcha ran for u in this step while a session was stored
CaptchaWithSession(u) ==
    /\ conv[u] = WAITING_FOR_CAPTCHA
    /\ user_data[u] # NoSession
    /\ last'[u] # last[u]
    /\ last'[u].handler = "handle_captcha"

\* the requests client c issues in this step
IssuedBy(c) ==
    IF c \in 1..Len(sessions) THEN SubSeq(sessions'[c], Len(sessions[c]) + 1, Len(sessions'[c]))
    ELSE sessions'[c]

\* C21: a message whose text is missing, or empty once stripped, does not use
\* up the attempt: with a session stored, handle_captcha sends no request on
\* it, leaves the session entry (client and pending) as it was and keeps the
\* conversation in WAITING_FOR_CAPTCHA; and a text that is not empty once
\* stripped is submitted, in one POST on the stored client, against the
\* pending check that was stored.
C21_UnusableAnswerKeepsAttempt ==
    [][\A u \in Users :
        CaptchaWithSession(u)
            => IF Unusable(last'[u].text)
               THEN /\ sessions' = sessions
                    /\ user_data'[u] = user_data[u]
                    /\ conv'[u] = WAITING_FOR_CAPTCHA
               ELSE LET requests == IssuedBy(user_data[u].client) IN
                    /\ Len(requests) = 1
                    /\ requests[1].method = "POST"
                    /\ requests[1].attempt = user_data[u].pending.id
                    /\ requests[1].data[user_data[u].pending.captcha_field]
                          = Strip(last'[u].text)]_vars

\* a blank answer was received with a session stored: the session is still
\* there, its pending check was never submitted and an answer is awaited
C21_Witness ==
    \E u \in Users :
        /\ last[u].handler = "handle_captcha"
        /\ last[u].outcome = "empty answer"
        /\ last[u].text = <<" ">>
        /\ conv[u] = WAITING_FOR_CAPTCHA
        /\ user_data[u] # NoSession
        /\ SubmitsOf(user_data[u].pending.id) = {}

====
